---------------------------- MODULE Spec2Model ----------------------------
(***************************************************************************)
(* net-exporter, package network: the Collector that dials the service's   *)
(* cluster address and its endpoints and exposes per-host latency          *)
(* histograms (src/network/network.go).                                    *)
(*                                                                         *)
(* One Collect call is a "cycle".  Collect calls may overlap (the          *)
(* exposition side calls Collect once per scrape and nothing serialises    *)
(* scrapes), so the model runs MaxCycles calls, each a process with its    *)
(* own program counter and its own dial goroutines.  Every call and every  *)
(* goroutine keeps its record after it ends, so that a state holds the     *)
(* whole history the claims speak of.                                      *)
(*                                                                         *)
(* A step of a goroutine is one access to shared state together with the   *)
(* goroutine-local statements before it: the dial, the log line and the    *)
(* counter increment or the Add are one action; the deferred conn.Close()  *)
(* and wg.Done() are one action each.                                      *)
(*                                                                         *)
(* The histogram vector (package exporterkit/histogramvec) is not part of  *)
(* the sources of this repository.  Its three operations Add, Ensure and   *)
(* Histograms are modelled from the description of the Histogram Store:    *)
(* each is atomic, Ensure only creates entries, and Histograms returns     *)
(* values that no later Add changes.                                       *)
(*                                                                         *)
(* Time is counted in milliseconds: bucketStart = 0.001 s is 1, and the    *)
(* elapsed time of a dial is a natural number of milliseconds, so sums are *)
(* exact and the rounding of float64 additions is outside the model.       *)
(***************************************************************************)
EXTENDS Naturals, Sequences, FiniteSets, TLC

\* ------------------------------------------------------------------ bounds

\* Number of Collect calls (cycles) of a run.
MaxCycles == 2

\* Largest number of endpoint addresses the registry returns for one lookup.
MaxAddrs == 1

\* Largest number of AddSample calls of the store-only specification.
MaxCalls == 4

\* --------------------------------------------------------------- constants

\* network.go:21, in milliseconds (0.001 s).
bucketStart == 1

\* network.go:22
bucketFactor == 2

\* network.go:23
numBuckets == 15

\* The -port flag's default (main.go), passed through verbatim.
Port == "8000"

\* service.Spec.ClusterIP as the registry returns it.
ClusterIP == "10.0.0.1"

\* Addresses the registry may list in an endpoint subset.
EndpointIPs == {"10.0.0.2"}

\* Elapsed times a successful dial may measure: 2 is exactly a bucket's upper
\* bound, 3 lies strictly between two bounds.
Latencies == {2, 3}

Cycles == 1..MaxCycles

\* ------------------------------------------------------------- pure helpers

RECURSIVE Pow(_, _)
Pow(b, n) == IF n = 0 THEN 1 ELSE b * Pow(b, n - 1)

\* prometheus.ExponentialBuckets(bucketStart, bucketFactor, numBuckets)
BucketLimits == {bucketStart * Pow(bucketFactor, i) : i \in 0..(numBuckets - 1)}

\* fmt.Sprintf("%v:%v", ip, port)
HostPort(ip, port) == ip \o ":" \o port

RECURSIVE Flatten(_)
\* The nested range over endpoints.Subsets and their Addresses.
Flatten(subsets) ==
    IF subsets = <<>> THEN <<>> ELSE Head(subsets) \o Flatten(Tail(subsets))

\* Sequences over S of length at most n.
SeqUpTo(S, n) == UNION {[1..k -> S] : k \in 0..n}

\* What an Endpoints lookup may return: subsets of addresses, at most
\* MaxAddrs addresses in all, in at most two subsets.
EndpointResponses ==
    {r \in SeqUpTo(SeqUpTo(EndpointIPs, MaxAddrs), 2) :
        /\ Len(Flatten(r)) <= MaxAddrs
        /\ \A k \in 1..Len(r) : r[k] # <<>>}

\* Every target a cycle can resolve.
AllHosts == {HostPort(ip, Port) : ip \in {ClusterIP} \cup EndpointIPs}

\* -------------------------------------------------------- histogram store

\* A histogram with no sample.
EmptyHistogram == [count |-> 0, sum |-> 0, buckets |-> [b \in BucketLimits |-> 0]]

\* Seeded fault for HistogramAdd: the upper bound of a bucket is exclusive.
HistogramAddExclusive(h, v) ==
    [count   |-> h.count + 1,
     sum     |-> h.sum + v,
     buckets |-> [b \in BucketLimits |->
                    IF v < b THEN h.buckets[b] + 1 ELSE h.buckets[b]]]

\* One sample added to one histogram: count, sum and every bucket whose
\* upper bound is >= v.
HistogramAdd(h, v) ==
    [count   |-> h.count + 1,
     sum     |-> h.sum + v,
     buckets |-> [b \in BucketLimits |->
                    IF v <= b THEN h.buckets[b] + 1 ELSE h.buckets[b]]]

\* The store with an entry for every label of ls, the entries it had kept.
WithLabels(store, ls) ==
    [l \in (DOMAIN store) \cup ls |->
        IF l \in DOMAIN store THEN store[l] ELSE EmptyHistogram]

\* Seeded fault for VecAdd: the update is computed from a fresh histogram and
\* stored over the entry, losing the samples added before.
VecAddLosesUpdates(store, label, x) ==
    [WithLabels(store, {label}) EXCEPT ![label] = HistogramAdd(EmptyHistogram, x)]

\* latencyHistogramVec.Add(label, x)
VecAdd(store, label, x) ==
    [WithLabels(store, {label}) EXCEPT
        ![label] = HistogramAdd(WithLabels(store, {label})[label], x)]

\* Seeded fault for VecEnsure: the labels not in the list are dropped.
VecEnsurePrunes(store, labels) ==
    [l \in {labels[k] : k \in 1..Len(labels)} |->
        IF l \in DOMAIN store THEN store[l] ELSE EmptyHistogram]

\* Seeded fault for VecEnsure: every listed label gets a fresh histogram,
\* whether it had an entry or not.
VecEnsureOverwrites(store, labels) ==
    [l \in (DOMAIN store) \cup {labels[k] : k \in 1..Len(labels)} |->
        IF l \in {labels[k] : k \in 1..Len(labels)} THEN EmptyHistogram ELSE store[l]]

\* latencyHistogramVec.Ensure(labels)
VecEnsure(store, labels) ==
    WithLabels(store, {labels[k] : k \in 1..Len(labels)})

\* latencyHistogramVec.Histograms()
VecHistograms(store) == store


\* ------------------------------------------------------------------- state

VARIABLES
    scrapeID,        \* Collector.scrapeID
    hist,            \* Collector.latencyHistogramVec: label -> histogram
    errorCount,      \* Collector.errorCount
    dialErrorCount,  \* Collector.dialErrorCount: host label -> counter
    cyc,             \* per Collect call: pc, hosts, endpoints, which lookup failed
    wk,              \* per Collect call: its dial goroutines, in spawn order
    wg,              \* per Collect call: the WaitGroup counter
    snap,            \* per Collect call: the map Histograms() returned
    rd,              \* per Collect call: the metric whose arguments are being read
    emitted,         \* per Collect call: the metrics sent on ch
    logs,            \* per Collect call: the scrapeID values its log lines carry
    calls,           \* store-only specification: the Add calls made so far
    ctor             \* the Config given to New and what New returned

vars == <<scrapeID, hist, errorCount, dialErrorCount, cyc, wk, wg, snap, rd,
          emitted, logs, calls, ctor>>

\* The variables of one Collect call's export loop.
exportVars == <<snap, rd, emitted>>

\* The empty map of labels.
NoLabels == [l \in {} |-> EmptyHistogram]

\* No metric is being built.
NoRead == [host |-> "", count |-> 0]

\* A goroutine as the go statement leaves it.
NewWorker(host) == [pc |-> "start", host |-> host, conn |-> "none", elapsed |-> 0]

\* ---------------------------------------------------------------- New

\* The Configs a caller may pass: each of Dialer, KubernetesClient and Logger
\* nil or not, each of Namespace, Port and Service empty or not.
Configs ==
    [Dialer : BOOLEAN, KubernetesClient : BOOLEAN, Logger : BOOLEAN,
     Namespace : {"", "monitoring"}, Port : {"", Port}, Service : {"", "net-exporter"}]

\* The Config main passes.
MainConfig ==
    [Dialer |-> TRUE, KubernetesClient |-> TRUE, Logger |-> TRUE,
     Namespace |-> "monitoring", Port |-> Port, Service |-> "net-exporter"]

\* New returns (nil, invalidConfigError) naming the field.
Invalid(config, field) ==
    [config |-> config, called |-> TRUE, err |-> field, collector |-> FALSE,
     registered |-> {}]

\* Seeded fault for New: the check of Port is missing.
NewSkipsPortCheck(config) ==
    IF ~config.Dialer THEN Invalid(config, "Dialer")
    ELSE IF ~config.KubernetesClient THEN Invalid(config, "KubernetesClient")
    ELSE IF ~config.Logger THEN Invalid(config, "Logger")
    ELSE IF config.Namespace = "" THEN Invalid(config, "Namespace")
    ELSE IF config.Service = "" THEN Invalid(config, "Service")
    ELSE [config |-> config, called |-> TRUE, err |-> "", collector |-> TRUE,
          registered |-> {"network_error_total", "network_dial_error_total"}]

\* New(config): the six checks in their order, then the two counters are
\* created and registered and the Collector is returned.
New(config) ==
    IF ~config.Dialer THEN Invalid(config, "Dialer")
    ELSE IF ~config.KubernetesClient THEN Invalid(config, "KubernetesClient")
    ELSE IF ~config.Logger THEN Invalid(config, "Logger")
    ELSE IF config.Namespace = "" THEN Invalid(config, "Namespace")
    ELSE IF config.Port = "" THEN Invalid(config, "Port")
    ELSE IF config.Service = "" THEN Invalid(config, "Service")
    ELSE [config |-> config, called |-> TRUE, err |-> "", collector |-> TRUE,
          registered |-> {"network_error_total", "network_dial_error_total"}]

\* A Config New has not been called with yet.
NotBuilt(config) ==
    [config |-> config, called |-> FALSE, err |-> "", collector |-> FALSE,
     registered |-> {}]

\* The fields of a Collector as New leaves them.
InitCollector ==
    /\ scrapeID = 0
    /\ hist = NoLabels
    /\ errorCount = 0
    /\ dialErrorCount = [h \in AllHosts |-> 0]
    /\ cyc = [c \in Cycles |->
                [pc |-> "idle", hosts |-> <<>>, failed |-> "none", subsets |-> <<>>]]
    /\ wk = [c \in Cycles |-> <<>>]
    /\ wg = [c \in Cycles |-> 0]
    /\ snap = [c \in Cycles |-> NoLabels]
    /\ rd = [c \in Cycles |-> NoRead]
    /\ emitted = [c \in Cycles |-> {}]
    /\ logs = [c \in Cycles |-> {}]
    /\ calls = <<>>

Init ==
    /\ InitCollector
    /\ ctor = New(MainConfig)

\* New is called with the Config at hand.
NewCall ==
    /\ ~ctor.called
    /\ ctor' = New(ctor.config)
    /\ UNCHANGED <<scrapeID, hist, errorCount, dialErrorCount, cyc, wk, wg,
                   exportVars, logs, calls>>

\* Construction on its own: any Config, then New.
InitNew ==
    /\ InitCollector
    /\ ctor \in {NotBuilt(config) : config \in Configs}

SpecNew == InitNew /\ [][NewCall]_vars

\* c.logger.Log(..., "scrapeID", c.scrapeID): the line carries the value the
\* field holds when the line is written.
Logged(c) == [logs EXCEPT ![c] = logs[c] \cup {scrapeID}]

\* -------------------------------------------------- Collect: orchestration

\* Seeded fault for CollectStart: the value of scrapeID is incremented in a
\* local copy, and the field keeps its value.
CollectStartKeepsID(c) ==
    /\ cyc[c].pc = "idle"
    /\ \A b \in Cycles : b < c => cyc[b].pc # "idle"
    /\ cyc' = [cyc EXCEPT ![c].pc = "getService", ![c].hosts = <<>>]
    /\ UNCHANGED <<scrapeID, hist, errorCount, dialErrorCount, wk, wg, exportVars, logs, calls, ctor>>

\* Collect is called: hosts := []string{} and atomic.AddUint64(&c.scrapeID, 1).
\* Calls take the slots in order (the slots are interchangeable).
CollectStart(c) ==
    /\ cyc[c].pc = "idle"
    /\ \A b \in Cycles : b < c => cyc[b].pc # "idle"
    /\ scrapeID' = scrapeID + 1
    /\ cyc' = [cyc EXCEPT ![c].pc = "getService", ![c].hosts = <<>>]
    /\ UNCHANGED <<hist, errorCount, dialErrorCount, wk, wg, exportVars, logs, calls, ctor>>

\* Services(namespace).Get fails: log, errorCount.Inc(), return.
GetServiceFails(c) ==
    /\ cyc[c].pc = "getService"
    /\ logs' = Logged(c)
    /\ errorCount' = errorCount + 1
    /\ cyc' = [cyc EXCEPT ![c].pc = "done", ![c].failed = "service"]
    /\ UNCHANGED <<scrapeID, hist, dialErrorCount, wk, wg, exportVars, calls, ctor>>

\* Services(namespace).Get succeeds: the cluster address is the first host.
GetServiceOk(c) ==
    /\ cyc[c].pc = "getService"
    /\ logs' = Logged(c)
    /\ cyc' = [cyc EXCEPT ![c].pc = "getEndpoints",
                          ![c].hosts = Append(cyc[c].hosts, HostPort(ClusterIP, Port))]
    /\ UNCHANGED <<scrapeID, hist, errorCount, dialErrorCount, wk, wg, exportVars, calls, ctor>>

\* Seeded fault for GetEndpointsFails: the error branch does not count.
GetEndpointsFailsUncounted(c) ==
    /\ cyc[c].pc = "getEndpoints"
    /\ logs' = Logged(c)
    /\ cyc' = [cyc EXCEPT ![c].pc = "done", ![c].failed = "endpoints"]
    /\ UNCHANGED <<scrapeID, hist, errorCount, dialErrorCount, wk, wg, exportVars, calls, ctor>>

\* Seeded fault for GetEndpointsFails: the hosts collected so far are given
\* their entries before the return, as if Ensure were deferred.
GetEndpointsFailsEnsures(c) ==
    /\ cyc[c].pc = "getEndpoints"
    /\ logs' = Logged(c)
    /\ errorCount' = errorCount + 1
    /\ hist' = VecEnsure(hist, cyc[c].hosts)
    /\ cyc' = [cyc EXCEPT ![c].pc = "done", ![c].failed = "endpoints"]
    /\ UNCHANGED <<scrapeID, dialErrorCount, wk, wg, exportVars, calls, ctor>>

\* Endpoints(namespace).Get fails: log, errorCount.Inc(), return.
GetEndpointsFails(c) ==
    /\ cyc[c].pc = "getEndpoints"
    /\ logs' = Logged(c)
    /\ errorCount' = errorCount + 1
    /\ cyc' = [cyc EXCEPT ![c].pc = "done", ![c].failed = "endpoints"]
    /\ UNCHANGED <<scrapeID, hist, dialErrorCount, wk, wg, exportVars, calls, ctor>>

\* Seeded fault for EndpointHosts: only the addresses of the first subset are
\* taken.
EndpointHostsFirstSubset(subsets) ==
    IF subsets = <<>> THEN <<>>
    ELSE [k \in 1..Len(subsets[1]) |-> HostPort(subsets[1][k], Port)]

\* The hosts appended for the subsets the lookup returned.
EndpointHosts(subsets) ==
    [k \in 1..Len(Flatten(subsets)) |-> HostPort(Flatten(subsets)[k], Port)]

\* Endpoints(namespace).Get succeeds with one of the responses in R: every
\* address of every subset is a host.
GetEndpointsOkFrom(c, R) ==
    /\ cyc[c].pc = "getEndpoints"
    /\ \E subsets \in R :
          cyc' = [cyc EXCEPT ![c].pc = "spawn",
                             ![c].subsets = subsets,
                             ![c].hosts = cyc[c].hosts \o EndpointHosts(subsets)]
    /\ logs' = Logged(c)
    /\ UNCHANGED <<scrapeID, hist, errorCount, dialErrorCount, wk, wg, exportVars, calls, ctor>>

\* Endpoints(namespace).Get succeeds.
GetEndpointsOk(c) == GetEndpointsOkFrom(c, EndpointResponses)

\* One turn of the loop over hosts: wg.Add(1) and go func(host).  After the
\* last host the caller is at wg.Wait().
Spawn(c) ==
    /\ cyc[c].pc = "spawn"
    /\ Len(wk[c]) < Len(cyc[c].hosts)
    /\ wg' = [wg EXCEPT ![c] = wg[c] + 1]
    /\ wk' = [wk EXCEPT ![c] = Append(wk[c], NewWorker(cyc[c].hosts[Len(wk[c]) + 1]))]
    /\ cyc' = [cyc EXCEPT ![c].pc =
                  IF Len(wk[c]) + 1 = Len(cyc[c].hosts) THEN "wait" ELSE "spawn"]
    /\ UNCHANGED <<scrapeID, hist, errorCount, dialErrorCount, exportVars, logs, calls, ctor>>

\* Seeded fault for Wait: the call does not wait for its goroutines.
WaitMissing(c) ==
    /\ cyc[c].pc = "wait"
    /\ cyc' = [cyc EXCEPT ![c].pc = "ensure"]
    /\ UNCHANGED <<scrapeID, hist, errorCount, dialErrorCount, wk, wg, exportVars, logs, calls, ctor>>

\* wg.Wait() returns: the counter is zero.
Wait(c) ==
    /\ cyc[c].pc = "wait"
    /\ wg[c] = 0
    /\ cyc' = [cyc EXCEPT ![c].pc = "ensure"]
    /\ UNCHANGED <<scrapeID, hist, errorCount, dialErrorCount, wk, wg, exportVars, logs, calls, ctor>>

\* Seeded fault for Ensure: the vector is rebuilt from the call's hosts, so
\* the histograms of earlier calls are reset.
EnsureResets(c) ==
    /\ cyc[c].pc = "ensure"
    /\ hist' = VecEnsure(NoLabels, cyc[c].hosts)
    /\ cyc' = [cyc EXCEPT ![c].pc = "snapshot"]
    /\ UNCHANGED <<scrapeID, errorCount, dialErrorCount, wk, wg, exportVars, logs, calls, ctor>>

\* Seeded fault for Ensure: the call to Ensure is missing.
EnsureSkipped(c) ==
    /\ cyc[c].pc = "ensure"
    /\ cyc' = [cyc EXCEPT ![c].pc = "snapshot"]
    /\ UNCHANGED <<scrapeID, hist, errorCount, dialErrorCount, wk, wg, exportVars, logs, calls, ctor>>

\* c.latencyHistogramVec.Ensure(hosts)
Ensure(c) ==
    /\ cyc[c].pc = "ensure"
    /\ hist' = VecEnsure(hist, cyc[c].hosts)
    /\ cyc' = [cyc EXCEPT ![c].pc = "snapshot"]
    /\ UNCHANGED <<scrapeID, errorCount, dialErrorCount, wk, wg, exportVars, logs, calls, ctor>>

\* The range expression c.latencyHistogramVec.Histograms() is evaluated once.
Snapshot(c) ==
    /\ cyc[c].pc = "snapshot"
    /\ snap' = [snap EXCEPT ![c] = VecHistograms(hist)]
    /\ cyc' = [cyc EXCEPT ![c].pc = "export"]
    /\ UNCHANGED <<scrapeID, hist, errorCount, dialErrorCount, wk, wg, rd, emitted, logs, calls, ctor>>

\* Seeded fault for LoopHistogram: the map holds the vector's own histograms,
\* which Add goes on changing while they are read.
LoopHistogramLive(c, h) == hist[h]

\* The histogram the loop variable of the range holds for host h.
LoopHistogram(c, h) == snap[c][h]

\* The hosts the range has still to visit.
ToVisit(c) == (DOMAIN snap[c]) \ {m.host : m \in emitted[c]}

\* The range picks its next host (map order is arbitrary) and the first
\* argument, histogram.Count(), is evaluated.
ExportCount(c) ==
    /\ cyc[c].pc = "export"
    /\ rd[c] = NoRead
    /\ \E h \in ToVisit(c) :
          rd' = [rd EXCEPT ![c] = [host |-> h, count |-> LoopHistogram(c, h).count]]
    /\ UNCHANGED <<scrapeID, hist, errorCount, dialErrorCount, cyc, wk, wg, snap, emitted, logs, calls, ctor>>

\* histogram.Sum() and histogram.Buckets() are evaluated and the constant
\* histogram is sent on ch.
ExportSend(c) ==
    /\ cyc[c].pc = "export"
    /\ rd[c] # NoRead
    /\ emitted' = [emitted EXCEPT ![c] = emitted[c] \cup
                     {[host    |-> rd[c].host,
                       count   |-> rd[c].count,
                       sum     |-> LoopHistogram(c, rd[c].host).sum,
                       buckets |-> LoopHistogram(c, rd[c].host).buckets]}]
    /\ rd' = [rd EXCEPT ![c] = NoRead]
    /\ UNCHANGED <<scrapeID, hist, errorCount, dialErrorCount, cyc, wk, wg, snap, logs, calls, ctor>>

\* The range is exhausted: the closing log line, and Collect returns.
Finish(c) ==
    /\ cyc[c].pc = "export"
    /\ rd[c] = NoRead
    /\ ToVisit(c) = {}
    /\ logs' = Logged(c)
    /\ cyc' = [cyc EXCEPT ![c].pc = "done"]
    /\ UNCHANGED <<scrapeID, hist, errorCount, dialErrorCount, wk, wg, exportVars, calls, ctor>>

\* --------------------------------------------------- Collect: dial goroutine

\* Goroutine i of call c is at pc p.
WorkerAt(c, i, p) == i \in 1..Len(wk[c]) /\ wk[c][i].pc = p

\* Seeded fault for DialError: wg.Done() is called at the end of the
\* goroutine instead of being deferred, so the early return skips it.
DialErrorSkipsDone(c, i) ==
    /\ WorkerAt(c, i, "start")
    /\ logs' = Logged(c)
    /\ dialErrorCount' = [dialErrorCount EXCEPT ![wk[c][i].host] = @ + 1]
    /\ wk' = [wk EXCEPT ![c][i].pc = "finished"]
    /\ UNCHANGED <<scrapeID, hist, errorCount, cyc, wg, exportVars, calls, ctor>>

\* Seeded fault for DialError: the error branch logs and returns without
\* counting the dial error.
DialErrorUncounted(c, i) ==
    /\ WorkerAt(c, i, "start")
    /\ logs' = Logged(c)
    /\ wk' = [wk EXCEPT ![c][i].pc = "deferDone"]
    /\ UNCHANGED <<scrapeID, hist, errorCount, dialErrorCount, cyc, wg, exportVars, calls, ctor>>

\* Seeded fault for DialError: the error branch has no return, and the
\* goroutine goes on to record an elapsed time for the failed dial.
DialErrorFallsThrough(c, i) ==
    /\ WorkerAt(c, i, "start")
    /\ logs' = Logged(c)
    /\ dialErrorCount' = [dialErrorCount EXCEPT ![wk[c][i].host] = @ + 1]
    /\ \E v \in Latencies :
          /\ wk' = [wk EXCEPT ![c][i].pc = "deferDone", ![c][i].elapsed = v]
          /\ hist' = VecAdd(hist, wk[c][i].host, v)
    /\ UNCHANGED <<scrapeID, errorCount, cyc, wg, exportVars, calls, ctor>>

\* c.dialer.Dial("tcp", host) returns an error: log,
\* dialErrorCount.WithLabelValues(host).Inc(), return.
DialError(c, i) ==
    /\ WorkerAt(c, i, "start")
    /\ logs' = Logged(c)
    /\ dialErrorCount' = [dialErrorCount EXCEPT ![wk[c][i].host] = @ + 1]
    /\ wk' = [wk EXCEPT ![c][i].pc = "deferDone"]
    /\ UNCHANGED <<scrapeID, hist, errorCount, cyc, wg, exportVars, calls, ctor>>

\* Seeded fault for AddSample: conn.Close() is not deferred, and the
\* goroutine returns with the connection open.
AddSampleLeavesOpen(c, i) ==
    /\ WorkerAt(c, i, "start")
    /\ \E v \in Latencies :
          /\ wk' = [wk EXCEPT ![c][i].pc = "deferDone", ![c][i].conn = "open",
                              ![c][i].elapsed = v]
          /\ hist' = VecAdd(hist, wk[c][i].host, v)
    /\ logs' = Logged(c)
    /\ UNCHANGED <<scrapeID, errorCount, dialErrorCount, cyc, wg, exportVars, calls, ctor>>

\* Seeded fault for AddSample: conn.Close() is called right after the dial
\* instead of being deferred, so the sample is added with the connection
\* closed.
AddSampleAfterClose(c, i) ==
    /\ WorkerAt(c, i, "start")
    /\ \E v \in Latencies :
          /\ wk' = [wk EXCEPT ![c][i].pc = "deferDone", ![c][i].conn = "closed",
                              ![c][i].elapsed = v]
          /\ hist' = VecAdd(hist, wk[c][i].host, v)
    /\ logs' = Logged(c)
    /\ UNCHANGED <<scrapeID, errorCount, dialErrorCount, cyc, wg, exportVars, calls, ctor>>

\* c.dialer.Dial("tcp", host) returns a connection: defer conn.Close(),
\* elapsed := time.Since(start), log, latencyHistogramVec.Add(host, elapsed.Seconds()).
AddSample(c, i) ==
    /\ WorkerAt(c, i, "start")
    /\ \E v \in Latencies :
          /\ wk' = [wk EXCEPT ![c][i].pc = "deferClose", ![c][i].conn = "open",
                              ![c][i].elapsed = v]
          /\ hist' = VecAdd(hist, wk[c][i].host, v)
    /\ logs' = Logged(c)
    /\ UNCHANGED <<scrapeID, errorCount, dialErrorCount, cyc, wg, exportVars, calls, ctor>>

\* The deferred conn.Close() runs.
CloseConn(c, i) ==
    /\ WorkerAt(c, i, "deferClose")
    /\ wk' = [wk EXCEPT ![c][i].pc = "deferDone", ![c][i].conn = "closed"]
    /\ UNCHANGED <<scrapeID, hist, errorCount, dialErrorCount, cyc, wg, exportVars, logs, calls, ctor>>

\* The deferred wg.Done() runs and the goroutine ends.
WorkerDone(c, i) ==
    /\ WorkerAt(c, i, "deferDone")
    /\ wg' = [wg EXCEPT ![c] = wg[c] - 1]
    /\ wk' = [wk EXCEPT ![c][i].pc = "finished"]
    /\ UNCHANGED <<scrapeID, hist, errorCount, dialErrorCount, cyc, exportVars, logs, calls, ctor>>

\* Goroutine indices of one call.
WorkerIds == 1..(MaxAddrs + 1)

Next ==
    \/ \E c \in Cycles : CollectStart(c)
    \/ \E c \in Cycles : GetServiceFails(c)
    \/ \E c \in Cycles : GetServiceOk(c)
    \/ \E c \in Cycles : GetEndpointsFails(c)
    \/ \E c \in Cycles : GetEndpointsOk(c)
    \/ \E c \in Cycles : Spawn(c)
    \/ \E c \in Cycles : Wait(c)
    \/ \E c \in Cycles : Ensure(c)
    \/ \E c \in Cycles : Snapshot(c)
    \/ \E c \in Cycles : ExportCount(c)
    \/ \E c \in Cycles : ExportSend(c)
    \/ \E c \in Cycles : Finish(c)
    \/ \E c \in Cycles, i \in WorkerIds : DialError(c, i)
    \/ \E c \in Cycles, i \in WorkerIds : AddSample(c, i)
    \/ \E c \in Cycles, i \in WorkerIds : CloseConn(c, i)
    \/ \E c \in Cycles, i \in WorkerIds : WorkerDone(c, i)

Spec == Init /\ [][Next]_vars

\* ------------------------------------------- the resolver on its own (hosts)

\* Addresses in all that an Endpoints lookup returns when only the list of
\* hosts and the spawn loop are looked at.
MaxResolveAddrs == 3

\* The addresses such a lookup may return.
ResolveIPs == {"10.0.0.2", "10.0.0.3"}

\* What such a lookup may return: at most two subsets, a subset possibly
\* without addresses, an address possibly more than once.
ResolveResponses ==
    {r \in SeqUpTo(SeqUpTo(ResolveIPs, MaxResolveAddrs), 2) :
        Len(Flatten(r)) <= MaxResolveAddrs}

\* Endpoints(namespace).Get succeeds with one of these responses.
ResolveEndpointsOk(c) == GetEndpointsOkFrom(c, ResolveResponses)

\* Collect up to the end of its spawn loop.
NextResolve ==
    \/ \E c \in Cycles : CollectStart(c)
    \/ \E c \in Cycles : GetServiceFails(c)
    \/ \E c \in Cycles : GetServiceOk(c)
    \/ \E c \in Cycles : GetEndpointsFails(c)
    \/ \E c \in Cycles : ResolveEndpointsOk(c)
    \/ \E c \in Cycles : Spawn(c)

SpecResolve == Init /\ [][NextResolve]_vars

\* ------------------------------------------------------------- fairness

\* A step of call c after its start: of the call itself or of one of its
\* goroutines.
Progress(c) ==
    \/ GetServiceFails(c) \/ GetServiceOk(c)
    \/ GetEndpointsFails(c) \/ GetEndpointsOk(c)
    \/ Spawn(c) \/ Wait(c) \/ Ensure(c) \/ Snapshot(c)
    \/ ExportCount(c) \/ ExportSend(c) \/ Finish(c)
    \/ \E i \in WorkerIds :
          DialError(c, i) \/ AddSample(c, i) \/ CloseConn(c, i) \/ WorkerDone(c, i)

\* Every lookup returns, every dial returns or times out, the receiver of ch
\* keeps receiving and the scheduler runs every goroutine: a started call
\* that can take a step takes one.  Nothing obliges a new call to start.
FairSpec == Spec /\ \A c \in Cycles : WF_vars(Progress(c))

\* ------------------------------------------- the store on its own (Add law)

\* Values a caller may pass to Add: below the first bound, on a bound,
\* between two bounds, on the last bound, above the last bound.
StoreSamples == {0, 2, 3, 16384, 16385}

\* latencyHistogramVec.Add(label, x), called on its own.
StoreAdd(label, x) ==
    /\ Len(calls) < MaxCalls
    /\ hist' = VecAdd(hist, label, x)
    /\ calls' = Append(calls, [label |-> label, x |-> x])
    /\ UNCHANGED <<scrapeID, errorCount, dialErrorCount, cyc, wk, wg, exportVars, logs, ctor>>

NextStore == \E label \in AllHosts, x \in StoreSamples : StoreAdd(label, x)

SpecStore == Init /\ [][NextStore]_vars

\* ------------------------------------- the store on its own (Add and Ensure)

\* The host lists a caller may pass to Ensure.
LabelLists == SeqUpTo(AllHosts, MaxAddrs + 1)

\* latencyHistogramVec.Ensure(labels), called on its own.
StoreEnsure(labels) ==
    /\ hist' = VecEnsure(hist, labels)
    /\ UNCHANGED <<scrapeID, errorCount, dialErrorCount, cyc, wk, wg, exportVars, logs, calls, ctor>>

NextEnsure ==
    \/ \E label \in AllHosts, x \in StoreSamples : StoreAdd(label, x)
    \/ \E labels \in LabelLists : StoreEnsure(labels)

SpecEnsure == Init /\ [][NextEnsure]_vars

\* A state every reachable state satisfies in shape.
TypeOK ==
    /\ scrapeID \in 0..MaxCycles
    /\ errorCount \in 0..MaxCycles
    /\ DOMAIN hist \subseteq AllHosts
    /\ \A c \in Cycles : Len(wk[c]) <= MaxAddrs + 1 /\ wg[c] \in 0..(MaxAddrs + 1)

\* ------------------------------------------------- vocabulary of the claims

\* Every goroutine spawned so far, as <<call, index>>.
AllWorkers == {w \in Cycles \X WorkerIds : w[2] <= Len(wk[w[1]])}

\* The record of goroutine w.
W(w) == wk[w[1]][w[2]]

\* The goroutines dialing host h whose dial succeeded and whose sample was added.
Sampled(h) == {w \in AllWorkers : W(w).host = h /\ W(w).conn # "none"}

\* The goroutines dialing host h whose dial failed and was counted.
Errored(h) == {w \in AllWorkers :
                  W(w).host = h /\ W(w).conn = "none" /\ W(w).pc # "start"}

\* Call c is past wg.Wait().
Joined(c) == cyc[c].pc \in {"ensure", "snapshot", "export"}
                \/ (cyc[c].pc = "done" /\ cyc[c].failed = "none")

\* Call c resolved its hosts and spawned a goroutine for each.
Probing(c) == cyc[c].pc = "wait" \/ Joined(c)

\* The count of host h in the store, 0 for a host without an entry.
StoreCount(h) == IF h \in DOMAIN hist THEN hist[h].count ELSE 0

\* ------------------------------------------------------------------ claims

\* C1 (fault isolation): in a call whose lookups succeeded, whichever dials
\* fail, the WaitGroup counts exactly the goroutines still running, so once
\* all have ended (failed or not) the call is released from wg.Wait(); and
\* every host's count is the number of dials of that host that succeeded,
\* one sample each: a failed dial neither prevents nor removes the sample of
\* another target.
C1_FaultIsolation ==
    /\ \A c \in Cycles :
          Probing(c) =>
              wg[c] = Cardinality({i \in 1..Len(wk[c]) : wk[c][i].pc # "finished"})
    /\ \A h \in AllHosts : StoreCount(h) = Cardinality(Sampled(h))

\* C1 witness: a call reached its export with one dial failed and the other
\* target's sample in the store.
C1_Witness ==
    \E c \in Cycles :
        /\ cyc[c].pc = "export"
        /\ \E i, j \in 1..Len(wk[c]) :
              /\ wk[c][i].conn = "none"
              /\ wk[c][j].conn = "closed"
              /\ StoreCount(wk[c][j].host) = 1

\* C2: a call has sent no metric, and has read none, while one of its
\* goroutines is still running or still to be spawned.
C2_NoExportBeforeJoin ==
    \A c \in Cycles :
        (emitted[c] # {} \/ rd[c] # NoRead \/ cyc[c].pc \in {"snapshot", "export"})
            => /\ Len(wk[c]) = Len(cyc[c].hosts)
               /\ \A i \in 1..Len(wk[c]) : wk[c][i].pc = "finished"

\* C2 witness: a call has sent a metric after its two goroutines ended, one
\* of them with a failed dial.
C2_Witness ==
    \E c \in Cycles :
        /\ emitted[c] # {}
        /\ Len(wk[c]) = 2
        /\ wk[c][1].conn = "closed"
        /\ wk[c][2].conn = "none"

\* C3: once a call is past its join, each of its goroutines has either added
\* one sample or counted one dial error, never both and never neither; over
\* all calls, a host's count is the number of its successful dials and its
\* dial-error counter the number of its failed dials.
C3_SampleOrError ==
    /\ \A c \in Cycles : Joined(c) =>
          \A i \in 1..Len(wk[c]) :
              LET h == wk[c][i].host
                  w == <<c, i>>
              IN  /\ (w \in Sampled(h)) # (w \in Errored(h))
                  /\ w \in Sampled(h) => wk[c][i].elapsed \in Latencies
                  /\ w \in Errored(h) => wk[c][i].elapsed = 0
    /\ \A h \in AllHosts :
          /\ StoreCount(h) = Cardinality(Sampled(h))
          /\ dialErrorCount[h] = Cardinality(Errored(h))

\* C3 witness: a call past its join with one sample added and one dial error
\* counted.
C3_Witness ==
    \E c \in Cycles :
        /\ Joined(c)
        /\ Len(wk[c]) = 2
        /\ <<c, 1>> \in Sampled(wk[c][1].host)
        /\ <<c, 2>> \in Errored(wk[c][2].host)
        /\ dialErrorCount[wk[c][2].host] = 1

\* The calls a failed lookup ended.
Aborted == {c \in Cycles : cyc[c].failed # "none"}

\* C4: a call whose service lookup or endpoints lookup failed has returned,
\* has spawned no goroutine and has sent nothing on ch, and the global error
\* counter holds one increment for each such call.
C4_ResolverFailure ==
    /\ \A c \in Aborted :
          /\ cyc[c].pc = "done"
          /\ emitted[c] = {}
          /\ rd[c] = NoRead
          /\ wk[c] = <<>>
    /\ errorCount = Cardinality(Aborted)

\* C4 witness: one call failed at the service lookup and another at the
\* endpoints lookup.
C4_Witness ==
    \E c, d \in Cycles :
        /\ cyc[c].failed = "service"
        /\ cyc[d].failed = "endpoints"
        /\ errorCount = 2

\* Goroutine i of call c has just taken the error branch of its dial.
DialFailedStep(c, i) ==
    /\ i <= Len(wk[c])
    /\ wk[c][i].pc = "start"
    /\ wk'[c][i].pc # "start"
    /\ wk'[c][i].conn = "none"

\* After Ensure, every host of call c has an entry, all-zero for a host no
\* dial has reached yet.
FailedHostsPresent(c) ==
    \A i \in 1..Len(wk[c]) :
        /\ wk[c][i].host \in DOMAIN hist
        /\ Sampled(wk[c][i].host) = {} => hist[wk[c][i].host] = EmptyHistogram

\* C5: the step in which a dial of host h fails leaves the whole store as it
\* was, records no elapsed time and adds exactly 1 to the dial-error counter
\* of h and to no other; and once the call has run Ensure, h has an entry,
\* all-zero when no dial of h has succeeded.
C5_DialFailure ==
    /\ [][\A c \in Cycles, i \in WorkerIds :
            DialFailedStep(c, i) =>
                /\ hist' = hist
                /\ wk'[c][i].elapsed = 0
                /\ dialErrorCount' =
                      [dialErrorCount EXCEPT ![wk[c][i].host] = @ + 1]]_vars
    /\ [](\A c \in Cycles :
            (cyc[c].pc \in {"snapshot", "export"}
                \/ (cyc[c].pc = "done" /\ cyc[c].failed = "none"))
                => FailedHostsPresent(c))

\* C5 witness: both cases of a failed dial, after Ensure: a host that had
\* samples keeps them, and a host never reached has an all-zero entry.
C5_Witness ==
    \E c \in Cycles :
        /\ cyc[c].pc = "snapshot"
        /\ Len(wk[c]) = 2
        /\ wk[c][1].conn = "none" /\ wk[c][1].pc = "finished"
        /\ wk[c][2].conn = "none" /\ wk[c][2].pc = "finished"
        /\ hist[wk[c][1].host].count = 1
        /\ hist[wk[c][2].host] = EmptyHistogram
        /\ dialErrorCount[wk[c][2].host] = 1

\* The Add calls made for label h, by their position in calls.
CallsFor(h) == {k \in 1..Len(calls) : calls[k].label = h}

RECURSIVE SumOfCalls(_)
\* The sum of the values of the calls at the positions in S.
SumOfCalls(S) ==
    IF S = {} THEN 0
    ELSE LET k == CHOOSE k \in S : TRUE
         IN  calls[k].x + SumOfCalls(S \ {k})

\* C6: after any sequence of Add(h, v) calls, h has an entry exactly when a
\* call was made for it; its count is the number of those calls, its sum the
\* sum of their values, and the count of each bucket bound b the number of
\* those calls with v <= b (a value equal to b included).
C6_AddSampleLaw ==
    \A h \in AllHosts :
        IF CallsFor(h) = {}
        THEN h \notin DOMAIN hist
        ELSE /\ h \in DOMAIN hist
             /\ hist[h].count = Cardinality(CallsFor(h))
             /\ hist[h].sum = SumOfCalls(CallsFor(h))
             /\ DOMAIN hist[h].buckets = BucketLimits
             /\ \A b \in BucketLimits :
                   hist[h].buckets[b] =
                       Cardinality({k \in CallsFor(h) : calls[k].x <= b})

\* C6 witness: a host with three samples, one exactly on the bound 2, one
\* between 2 and 4 and one above the last bound: bucket 1 is empty, bucket 2
\* holds the first, bucket 4 and the last bucket hold two.
C6_Witness ==
    \E h \in DOMAIN hist :
        /\ {calls[k].x : k \in CallsFor(h)} = {2, 3, 16385}
        /\ hist[h].count = 3
        /\ hist[h].sum = 16390
        /\ hist[h].buckets[1] = 0
        /\ hist[h].buckets[2] = 1
        /\ hist[h].buckets[4] = 2
        /\ hist[h].buckets[16384] = 2

\* Call c wrote all its log lines, the closing one included, while scrapeID
\* was still c: it returned before the next call started.
EndedFirst(c) == cyc[c].pc = "done" /\ logs[c] = {c}

\* The calls that dialed host h with success.
SuccessfulCalls(h) == {c \in Cycles : \E i \in 1..Len(wk[c]) : <<c, i>> \in Sampled(h)}

\* C7: no step removes a host's histogram or lowers its count, and each call
\* that dials a host with success adds one to the count the earlier calls
\* left: a host dialed once per call has for count the number of calls that
\* dialed it with success (2 after two such calls).
C7_NeverReset ==
    /\ [][\A h \in DOMAIN hist :
            h \in DOMAIN hist' /\ hist'[h].count >= hist[h].count]_vars
    /\ [](\A h \in AllHosts :
            (\A w, x \in Sampled(h) : w[1] = x[1] => w = x)
                => StoreCount(h) = Cardinality(SuccessfulCalls(h)))

\* C7 witness: two calls, one after the other, both dialed the cluster
\* address with success and its count is 2.
C7_Witness ==
    /\ EndedFirst(1)
    /\ cyc[2].pc = "done"
    /\ SuccessfulCalls(HostPort(ClusterIP, Port)) = {1, 2}
    /\ hist[HostPort(ClusterIP, Port)].count = 2

RECURSIVE HistogramOf(_)
\* The samples of the goroutines in S added one after another to an empty
\* histogram.
HistogramOf(S) ==
    IF S = {} THEN EmptyHistogram
    ELSE LET w == CHOOSE w \in S : TRUE
         IN  HistogramAdd(HistogramOf(S \ {w}), W(w).elapsed)

\* C8: every metric sent on ch carries the count, sum and bucket counts of
\* its host's histogram after a whole number of the Add calls made for that
\* host: some set of the samples added to the host accounts for all three.
C8_ConsistentExport ==
    \A c \in Cycles : \A m \in emitted[c] :
        \E S \in SUBSET Sampled(m.host) :
            /\ m.count = HistogramOf(S).count
            /\ m.sum = HistogramOf(S).sum
            /\ m.buckets = HistogramOf(S).buckets

\* C8 witness: a call sent the metric of a host with one sample while the
\* goroutine of an overlapping call had added a second sample to that host
\* before the call finished its export.
C8_Witness ==
    \E c \in Cycles : \E m \in emitted[c] :
        /\ cyc[c].pc = "export"
        /\ m.count = 1
        /\ hist[m.host].count = 2
        /\ \E d \in Cycles \ {c} : cyc[d].pc = "wait"

\* C9: whatever the interleaving of the goroutines of one call or of two
\* overlapping calls, each host's histogram is the one obtained by applying
\* the Add calls made for it one after another; in particular, when all
\* goroutines have ended no sample is missing.
C9_NoLostUpdate ==
    \A h \in AllHosts :
        IF Sampled(h) = {}
        THEN h \in DOMAIN hist => hist[h] = EmptyHistogram
        ELSE h \in DOMAIN hist /\ hist[h] = HistogramOf(Sampled(h))

\* C9 witness: two overlapping calls, both at wg.Wait() with all goroutines
\* ended, added two samples, 2 and 3, to each of two hosts.
C9_Witness ==
    /\ cyc[1].pc = "wait"
    /\ cyc[2].pc = "wait"
    /\ \A w \in AllWorkers : W(w).pc = "finished"
    /\ \A h \in AllHosts :
          /\ {W(w).elapsed : w \in Sampled(h)} = {2, 3}
          /\ hist[h].count = 2
          /\ hist[h].sum = 5

\* C10: no step removes a host from the store, which holds every host a
\* sample was added for and every host of every call that has run Ensure; a
\* call reads the whole store, and when it ran to its end without a lookup
\* failure it has sent one metric for every host the store held when read,
\* the hosts of earlier calls included, each with the count, sum and
\* buckets the store held for it.
C10_HostsNeverShrink ==
    /\ [][DOMAIN hist \subseteq DOMAIN hist']_vars
    /\ [][\A c \in Cycles :
            (cyc[c].pc = "snapshot" /\ cyc'[c].pc = "export")
                => snap'[c] = hist]_vars
    /\ [](\A h \in AllHosts : Sampled(h) # {} => h \in DOMAIN hist)
    /\ [](\A c \in Cycles :
            /\ (cyc[c].pc \in {"snapshot", "export", "done"} /\ cyc[c].failed = "none")
                  => {cyc[c].hosts[k] : k \in 1..Len(cyc[c].hosts)} \subseteq DOMAIN hist
            /\ cyc[c].pc \in {"export", "done"} /\ cyc[c].failed = "none"
                  => DOMAIN snap[c] \subseteq DOMAIN hist
            /\ (cyc[c].pc = "done" /\ cyc[c].failed = "none")
                  => /\ {m.host : m \in emitted[c]} = DOMAIN snap[c]
                     /\ \A m \in emitted[c] :
                           [count |-> m.count, sum |-> m.sum, buckets |-> m.buckets]
                               = snap[c][m.host])

\* C10 witness: the second call resolved the cluster address only, after the
\* first call had ended, and sent the metric of the endpoint the first call
\* had dialed, with the one sample of the first call.
C10_Witness ==
    /\ EndedFirst(1)
    /\ cyc[2].pc = "done"
    /\ Len(cyc[1].hosts) = 2
    /\ Len(cyc[2].hosts) = 1
    /\ \E m \in emitted[2] :
          /\ m.host = cyc[1].hosts[2]
          /\ m.count = 1
          /\ m \in emitted[1]

\* The hosts call c resolved, as a set.
HostSet(c) == {cyc[c].hosts[k] : k \in 1..Len(cyc[c].hosts)}

\* The metrics call c sent for host h.
MetricsOf(c, h) == {m \in emitted[c] : m.host = h}

\* C11: a call that ran to its end without a lookup failure has sent exactly
\* one metric for each host of the store as it read it and none for any
\* other host; every host it resolved is among them, a host whose dials all
\* failed included, with count 0 when no dial of it has ever succeeded and
\* with the state the store held otherwise.
C11_ExportCoversTargets ==
    \A c \in Cycles :
        (cyc[c].pc = "done" /\ cyc[c].failed = "none") =>
            /\ \A h \in DOMAIN snap[c] : Cardinality(MetricsOf(c, h)) = 1
            /\ Cardinality(emitted[c]) = Cardinality(DOMAIN snap[c])
            /\ \A h \in HostSet(c) :
                  /\ Cardinality(MetricsOf(c, h)) = 1
                  /\ \A m \in MetricsOf(c, h) :
                        /\ Sampled(h) = {} => m.count = 0 /\ m.sum = 0
                        /\ m.count = snap[c][h].count
                        /\ m.count <= Cardinality(Sampled(h))

\* C11 witness: a call resolved two targets; the dial of the cluster address
\* succeeded and the dial of the endpoint, never seen before, failed; the
\* call sent two metrics, with counts 1 and 0.
C11_Witness ==
    \E c \in Cycles :
        /\ cyc[c].pc = "done"
        /\ Len(wk[c]) = 2
        /\ wk[c][1].conn = "closed"
        /\ wk[c][2].conn = "none"
        /\ Sampled(wk[c][2].host) = {}
        /\ {m.count : m \in MetricsOf(c, wk[c][1].host)} = {1}
        /\ {m.count : m \in MetricsOf(c, wk[c][2].host)} = {0}

\* The step is a call of Ensure with the list ls.
EnsureStep(ls) == calls' = calls /\ hist' = VecEnsure(hist, ls)

\* C12: a call of Ensure leaves every entry the store had with the same
\* count, sum and buckets, leaves the store with exactly the labels it had
\* and the listed ones, the new ones all-zero, and a second call with the
\* same list would leave the store as the first call left it.
C12_EnsureIdempotent ==
    [][\A ls \in LabelLists :
          EnsureStep(ls) =>
              /\ VecEnsure(hist', ls) = hist'
              /\ DOMAIN hist' = (DOMAIN hist) \cup {ls[k] : k \in 1..Len(ls)}
              /\ \A h \in DOMAIN hist' :
                    hist'[h] = IF h \in DOMAIN hist THEN hist[h] ELSE EmptyHistogram]_vars

\* C12 witness: Ensure has created an all-zero entry (no Add was called for
\* its label) in a store that holds another label with two samples.
C12_Witness ==
    \E h, g \in DOMAIN hist :
        /\ CallsFor(h) = {}
        /\ hist[h] = EmptyHistogram
        /\ hist[g].count = 2

\* The phase of a call at pc: 0 Idle before the call, 1 Resolving, 2 Probing,
\* 3 Aggregating, 4 Exporting, 5 Idle after the call.
PhaseRank(pc) ==
    CASE pc = "idle" -> 0
      [] pc \in {"getService", "getEndpoints"} -> 1
      [] pc \in {"spawn", "wait"} -> 2
      [] pc = "ensure" -> 3
      [] pc \in {"snapshot", "export"} -> 4
      [] pc = "done" -> 5

\* C13: under the fairness of FairSpec every started call returns, whatever
\* dials fail; and a call moves through its phases in order, one phase at a
\* time, leaving the order only from Resolving, when a lookup failed.
C13_CycleTerminates ==
    /\ \A c \in Cycles : (cyc[c].pc # "idle") ~> (cyc[c].pc = "done")
    /\ [][\A c \in Cycles :
            LET a == PhaseRank(cyc[c].pc)
                b == PhaseRank(cyc'[c].pc)
            IN  \/ b = a
                \/ b = a + 1 /\ cyc'[c].failed = "none"
                \/ a = 1 /\ b = 5 /\ cyc'[c].failed # "none"]_vars

\* C13 witness: a call with one dial failed and one succeeded has returned
\* after sending its metrics.
C13_Witness ==
    \E c \in Cycles :
        /\ cyc[c].pc = "done"
        /\ cyc[c].failed = "none"
        /\ emitted[c] # {}
        /\ \E i, j \in 1..Len(wk[c]) : wk[c][i].conn = "none" /\ wk[c][j].conn = "closed"

\* Some input New requires is missing from config.
Incomplete(config) ==
    \/ ~config.Dialer \/ ~config.KubernetesClient \/ ~config.Logger
    \/ config.Namespace = "" \/ config.Port = "" \/ config.Service = ""

\* C14: once New has returned, it returned an invalid-config error exactly
\* when an input is missing; with the error it returned no Collector and
\* registered no counter; it returned a Collector only with every input
\* present.
C14_NewFailsFast ==
    ctor.called =>
        /\ (ctor.err # "") <=> Incomplete(ctor.config)
        /\ ctor.err # "" => ~ctor.collector /\ ctor.registered = {}
        /\ ctor.collector <=> ~Incomplete(ctor.config)

\* C14 witness: New was called with only the port empty and failed on it.
C14_Witness ==
    /\ ctor.called
    /\ ctor.config = [MainConfig EXCEPT !.Port = ""]
    /\ ctor.err = "Port"
    /\ ~ctor.collector

\* C15 as stated: the connection of a dial is closed before its sample is
\* added, so a goroutine that has added its sample holds no open connection.
C15_CloseBeforeAdd ==
    \A w \in AllWorkers : W(w).elapsed # 0 => W(w).conn = "closed"

\* C15, amended: the step that records the elapsed time of a successful dial
\* adds it to the histogram of the dialed host with the connection still
\* open; the step that closes the connection comes after it and leaves the
\* store and the elapsed time as they were; a closed connection is one whose
\* sample is in the store.
C15_AddThenClose ==
    /\ [][\A c \in Cycles, i \in WorkerIds :
            (i <= Len(wk[c]) /\ wk[c][i].elapsed = 0 /\ wk'[c][i].elapsed # 0)
                => /\ wk[c][i].conn = "none"
                   /\ wk'[c][i].conn = "open"
                   /\ hist' = VecAdd(hist, wk[c][i].host, wk'[c][i].elapsed)]_vars
    /\ [][\A c \in Cycles, i \in WorkerIds :
            (i <= Len(wk[c]) /\ wk[c][i].conn # "closed" /\ wk'[c][i].conn = "closed")
                => /\ wk[c][i].conn = "open"
                   /\ wk[c][i].elapsed \in Latencies
                   /\ wk'[c][i].elapsed = wk[c][i].elapsed
                   /\ hist' = hist]_vars
    /\ [](\A w \in AllWorkers :
            W(w).conn # "none"
                => W(w).elapsed \in Latencies /\ StoreCount(W(w).host) >= 1)

\* C15 witness: a goroutine has added its sample and its connection is still
\* open, and another has closed its connection after adding its sample.
C15_Witness ==
    \E w, x \in AllWorkers :
        /\ W(w).conn = "open"
        /\ W(w).elapsed \in Latencies
        /\ W(x).conn = "closed"
        /\ W(x).pc = "finished"
        /\ StoreCount(W(w).host) >= 1
        /\ StoreCount(W(x).host) >= 1

\* The calls of Collect made so far.
Started == {c \in Cycles : cyc[c].pc # "idle"}

\* C16: scrapeID is the number of calls of Collect made so far, whether they
\* overlap, follow one another or were ended by a failed lookup; a step
\* changes it only by starting a call, and then by exactly 1; it never
\* decreases.
C16_ScrapeIDCountsCalls ==
    /\ [](scrapeID = Cardinality(Started))
    /\ [][scrapeID' >= scrapeID]_vars
    /\ [][scrapeID' # scrapeID
            => /\ scrapeID' = scrapeID + 1
               /\ \E c \in Cycles : cyc[c].pc = "idle" /\ cyc'[c].pc = "getService"]_vars
    /\ [][(\E c \in Cycles : cyc[c].pc = "idle" /\ cyc'[c].pc # "idle")
            => scrapeID' = scrapeID + 1]_vars

\* C16 witness: the first call was ended by a failed service lookup, the
\* second is sending its metrics, and scrapeID is 2.
C16_Witness ==
    /\ cyc[1].failed = "service"
    /\ cyc[2].pc = "export"
    /\ scrapeID = 2

\* C17: every log line of a call, written by Collect itself or by one of its
\* goroutines, carries the value the call's own increment gave scrapeID: the
\* c-th call logs c and nothing else.
C17_LogsCarryOwnID ==
    \A c \in Cycles : logs[c] \subseteq {c}

\* The calls that have run Ensure.
Ensured == {c \in Cycles : cyc[c].failed = "none"
                              /\ cyc[c].pc \in {"snapshot", "export", "done"}}

\* C18: a step of a call that is at one of its lookups leaves the store, the
\* dial-error counters, the goroutines and the metrics sent as they were; a
\* call a failed lookup ended has spawned no goroutine, also when it had
\* already collected the cluster address; and the store and the dial-error
\* counters are what the other calls alone made them: the entries are those
\* of the hosts sampled or ensured by calls that passed their lookups, and
\* while no such call has spawned a goroutine the store is empty and every
\* dial-error counter is 0.
C18_AbortLeavesNoTrace ==
    /\ [][\A c \in Cycles :
            (cyc[c].pc \in {"getService", "getEndpoints"} /\ cyc'[c] # cyc[c])
                => /\ hist' = hist
                   /\ dialErrorCount' = dialErrorCount
                   /\ wk' = wk
                   /\ emitted' = emitted]_vars
    /\ [](\A c \in Aborted :
            /\ wk[c] = <<>>
            /\ snap[c] = NoLabels
            /\ emitted[c] = {}
            /\ cyc[c].failed = "endpoints"
                  => cyc[c].hosts = <<HostPort(ClusterIP, Port)>>)
    /\ [](DOMAIN hist =
            {h \in AllHosts : Sampled(h) # {}}
                \cup UNION {HostSet(c) : c \in Ensured})
    /\ [](\A h \in AllHosts :
            dialErrorCount[h] =
                Cardinality({w \in Errored(h) : w[1] \notin Aborted}))
    /\ []((\A c \in Cycles \ Aborted : wk[c] = <<>>)
            => hist = NoLabels /\ \A h \in AllHosts : dialErrorCount[h] = 0)

\* C18 witness: the first call collected the cluster address and was ended
\* by the failed endpoints lookup, leaving the store empty; the second call,
\* started after it, ran to its end and the cluster address has the one
\* sample of the second call.
C18_Witness ==
    /\ cyc[1].failed = "endpoints"
    /\ cyc[1].hosts = <<HostPort(ClusterIP, Port)>>
    /\ EndedFirst(1)
    /\ cyc[2].pc = "done" /\ cyc[2].failed = "none"
    /\ StoreCount(HostPort(ClusterIP, Port)) = 1
    /\ Sampled(HostPort(ClusterIP, Port)) = {<<2, 1>>}
    /\ errorCount = 1
    /\ scrapeID = 2

\* The connections of call c that are open.
OpenConns(c) == {i \in 1..Len(wk[c]) : wk[c][i].conn = "open"}

\* C19: the step in which wg.Done() counts a goroutine as finished finds its
\* connection, if the dial opened one, closed; a closed connection stays
\* closed; so a goroutine that has run wg.Done() holds no open connection,
\* and a call past wg.Wait() has none open, whatever the order in which its
\* goroutines and those of another call ran.
C19_ClosedBeforeJoin ==
    /\ [][\A c \in Cycles :
            wg'[c] < wg[c] =>
                \E i \in 1..Len(wk[c]) :
                    /\ wk[c][i].pc # "finished"
                    /\ wk'[c][i].pc = "finished"
                    /\ wk[c][i].conn # "open"
                    /\ wg'[c] = wg[c] - 1]_vars
    /\ [][\A w \in AllWorkers : W(w).conn = "closed" => wk'[w[1]][w[2]].conn = "closed"]_vars
    /\ [](\A w \in AllWorkers : W(w).pc \in {"deferDone", "finished"} => W(w).conn # "open")
    /\ [](\A c \in Cycles : Joined(c) => OpenConns(c) = {})

\* C19 witness: a call with two successful dials is sending its metrics with
\* both connections closed, while the other call still holds one open.
C19_Witness ==
    \E c, d \in Cycles :
        /\ cyc[c].pc = "export"
        /\ Len(wk[c]) = 2
        /\ \A i \in 1..2 : wk[c][i].conn = "closed"
        /\ cyc[d].pc = "wait"
        /\ OpenConns(d) # {}

RECURSIVE AddressesBefore(_, _)
\* The number of addresses in the subsets before subset k.
AddressesBefore(subsets, k) ==
    IF k <= 1 THEN 0
    ELSE Len(subsets[k - 1]) + AddressesBefore(subsets, k - 1)

\* C20: in a call whose lookups both succeeded, the hosts are the cluster
\* address and then each address of each subset the lookup returned, in the
\* order of the subsets and of the addresses in them, each as ip:port with
\* the configured port; there are 1 + (number of addresses) of them, an
\* address returned twice being a host twice, whatever another call
\* resolved; the goroutines spawned so far are one per host, in the order
\* of the hosts, and at the end of the spawn loop there is exactly one for
\* each element.
C20_HostsAndWorkers ==
    \A c \in Cycles :
        cyc[c].pc \in {"spawn", "wait"} =>
            LET hosts == cyc[c].hosts
                subsets == cyc[c].subsets
                n == AddressesBefore(subsets, Len(subsets) + 1)
            IN  /\ Len(hosts) = 1 + n
                /\ hosts[1] = ClusterIP \o ":" \o Port
                /\ \A k \in 1..Len(subsets) : \A j \in 1..Len(subsets[k]) :
                      hosts[1 + AddressesBefore(subsets, k) + j]
                          = subsets[k][j] \o ":" \o Port
                /\ Len(wk[c]) <= Len(hosts)
                /\ \A i \in 1..Len(wk[c]) : wk[c][i].host = hosts[i]
                /\ wg[c] = Len(wk[c])
                /\ cyc[c].pc = "wait" => Len(wk[c]) = Len(hosts)

\* C20 witness: the lookup returned two subsets with three addresses, one of
\* them twice; the call has four hosts and has spawned four goroutines, two
\* of them for the same host.
C20_Witness ==
    \E c \in Cycles :
        /\ cyc[c].pc = "wait"
        /\ cyc[c].subsets = << <<"10.0.0.3">>, <<"10.0.0.2", "10.0.0.3">> >>
        /\ cyc[c].hosts = <<"10.0.0.1:8000", "10.0.0.3:8000", "10.0.0.2:8000", "10.0.0.3:8000">>
        /\ Len(wk[c]) = 4
        /\ wk[c][2].host = wk[c][4].host

=============================================================================
